---- MODULE Spec2Model ----
(***************************************************************************)
(* Model of config_tool.py: the configuration automation tool that clones  *)
(* the latest version folder of every configured server and rewrites the   *)
(* .ini files of the clone (literal replacements, port renumbering).       *)
(*                                                                         *)
(* Text is modelled as sequences of one-character strings, so that         *)
(* str.replace, re.findall, int() and str() are computed character by      *)
(* character as Python computes them.                                      *)
(*                                                                         *)
(* Two specifications share the module:                                    *)
(*   Spec    the orchestrator (main / process_server) over a filesystem;   *)
(*   SpecRW  modify_ports_and_paths applied to one file, once and twice.   *)
(***************************************************************************)
EXTENDS Integers, Sequences, FiniteSets, TLC

VARIABLES
    fs,             \* existing server root |-> entry name |-> entry
    clock,          \* source of creation timestamps
    servers,        \* servers.json: the "servers" list
    pc,             \* position of main: "idle", "loop", "done"
    idx,            \* index of the next server of the loop in main
    new_version,    \* main's new_version (stripped input)
    env_rules,      \* main's env_rules (ruleset selected for the run)
    status,         \* per server of the list: what was reported for it
    outcome,        \* how the current run of main ended so far
    runs,           \* number of runs of main started
    fs0,            \* the filesystem when the current run started
    created,        \* directories created by the current run: <<root, name, source>>
    run_input,      \* what the current run was given: prompts, configuration files
    rwOrig,         \* SpecRW: the file as first read
    rwRules,        \* SpecRW: the ruleset
    rwFile,         \* SpecRW: the file on disk now
    rwFirst,        \* SpecRW: the file after the first application
    rwCount         \* SpecRW: applications of modify_ports_and_paths so far

fsVars == <<fs, clock, servers, pc, idx, new_version, env_rules, status, outcome,
            runs, fs0, created, run_input>>
rwVars == <<rwOrig, rwRules, rwFile, rwFirst, rwCount>>
vars == <<fs, clock, servers, pc, idx, new_version, env_rules, status, outcome,
          runs, fs0, created, run_input, rwOrig, rwRules, rwFile, rwFirst, rwCount>>

----------------------------------------------------------------------------
(* Text primitives of Python used by the tool. *)

Digits == <<"0", "1", "2", "3", "4", "5", "6", "7", "8", "9">>

IsDigit(c) == \E d \in 1..10 : Digits[d] = c

DigitVal(c) == (CHOOSE d \in 1..10 : Digits[d] = c) - 1

\* int(port) of a string of decimal digits
RECURSIVE int(_)
int(s) ==
    IF s = <<>> THEN 0
    ELSE 10 * int(SubSeq(s, 1, Len(s) - 1)) + DigitVal(s[Len(s)])

RECURSIVE NatStr(_)
NatStr(n) ==
    IF n < 10 THEN <<Digits[n + 1]>>
    ELSE NatStr(n \div 10) \o <<Digits[(n % 10) + 1]>>

\* str(new_port)
str(n) == IF n < 0 THEN <<"-">> \o NatStr(0 - n) ELSE NatStr(n)

\* s has old at position p
HasAt(s, old, p) ==
    /\ p >= 1
    /\ p + Len(old) - 1 <= Len(s)
    /\ \A k \in 1..Len(old) : s[p + k - 1] = old[k]

\* The start positions str.replace(old, new) replaces: leftmost first, not
\* overlapping; for an empty old, before every character and at the end.
RECURSIVE MatchStartsFrom(_, _, _)
MatchStartsFrom(s, old, pos) ==
    IF old = <<>> THEN [k \in 1..(Len(s) + 1) |-> k]
    ELSE IF pos + Len(old) - 1 > Len(s) THEN <<>>
    ELSE IF HasAt(s, old, pos)
         THEN <<pos>> \o MatchStartsFrom(s, old, pos + Len(old))
         ELSE MatchStartsFrom(s, old, pos + 1)

\* A buggy variant: only the first occurrence is replaced.
MatchStartsFirstOnly(s, old) ==
    LET all == MatchStartsFrom(s, old, 1)
    IN  IF all = <<>> THEN <<>> ELSE <<all[1]>>

MatchStarts(s, old) == MatchStartsFrom(s, old, 1)

\* s with the n characters at each start of starts (from the k-th on) replaced by new
RECURSIVE Rebuild(_, _, _, _, _, _)
Rebuild(s, starts, n, new, pos, k) ==
    IF k > Len(starts) THEN SubSeq(s, pos, Len(s))
    ELSE SubSeq(s, pos, starts[k] - 1) \o new
         \o Rebuild(s, starts, n, new, starts[k] + n, k + 1)

\* line.replace(old, new)
str_replace(s, old, new) == Rebuild(s, MatchStarts(s, old), Len(old), new, 1, 1)

\* length of the match of \d{4,5} at position p of s, 0 if there is none
MatchLenAt(s, p) ==
    IF \A k \in 0..3 : p + k <= Len(s) /\ IsDigit(s[p + k])
    THEN IF p + 4 <= Len(s) /\ IsDigit(s[p + 4]) THEN 5 ELSE 4
    ELSE 0

\* re.findall(r"(\d{4,5})", line), as <<start, length>> pairs
RECURSIVE FindSpans(_, _)
FindSpans(s, pos) ==
    IF pos > Len(s) THEN <<>>
    ELSE LET n == MatchLenAt(s, pos)
         IN  IF n = 0 THEN FindSpans(s, pos + 1)
             ELSE <<(<<pos, n>>)>> \o FindSpans(s, pos + n)

findall(s) ==
    LET sp == FindSpans(s, 1)
    IN  [k \in 1..Len(sp) |-> SubSeq(s, sp[k][1], sp[k][1] + sp[k][2] - 1)]

----------------------------------------------------------------------------
(* modify_ports_and_paths *)

PortLo == 4000
PortHi == 6000

\* A buggy variant: the upper end of the range is left out.
InPortRangeOpen(n) == PortLo <= n /\ n < PortHi

\* A buggy variant: the upper end of the range is not checked.
InPortRangeNoUpper(n) == PortLo <= n

\* 4000 <= port_int <= 6000
InPortRange(n) == PortLo <= n /\ n <= PortHi

\* for old, new in env_rules["replace"].items(): line = line.replace(old, new)
RECURSIVE ReplaceStep(_, _, _)
ReplaceStep(line, replace, k) ==
    IF k > Len(replace) THEN line
    ELSE ReplaceStep(str_replace(line, replace[k][1], replace[k][2]), replace, k + 1)

\* for port in ports: ... line = line.replace(port, str(new_port))
RECURSIVE PortLoop(_, _, _, _)
PortLoop(line, ports, port_offset, k) ==
    IF k > Len(ports) THEN line
    ELSE LET port_int == int(ports[k])
         IN  IF InPortRange(port_int)
             THEN PortLoop(str_replace(line, ports[k], str(port_int + port_offset)),
                           ports, port_offset, k + 1)
             ELSE PortLoop(line, ports, port_offset, k + 1)

\* the port step of one line: ports = re.findall(...), then the loop
PortStep(line, port_offset) == PortLoop(line, findall(line), port_offset, 1)

RewriteLine(line, rules) ==
    PortStep(ReplaceStep(line, rules.replace, 1), rules.port_offset)

\* the new_lines that modify_ports_and_paths writes back for the lines it read
modify_ports_and_paths(lines, rules) ==
    [k \in 1..Len(lines) |-> RewriteLine(lines[k], rules)]

----------------------------------------------------------------------------
(* SpecRW: one file, rewritten once and then once more. *)

MaxTokens == 2

Sp == <<" ">>

Tokens ==
    { <<"4","0","0","0">>, <<"4","5","0","0">>, <<"6","0","0","0">>,
      <<"1","4","5","0","0">>, <<"0","4","5","0","0">>,
      <<"4","5","0">>, <<"p","=","4","5","0","0">>,
      <<"1","2","3","4","5","4","5","0","0">>,
      <<"a">>, <<"a","c","b">> }

RECURSIVE TokenLines(_)
TokenLines(n) ==
    IF n = 1 THEN Tokens
    ELSE LET shorter == TokenLines(n - 1)
         IN  shorter \cup { l \o Sp \o t : l \in shorter, t \in Tokens }

Lines == TokenLines(MaxTokens)

SecondLines == { <<"a","b">>, <<"4","6","0","0">> }

Files == { <<l>> : l \in Lines } \cup { <<l, m>> : l \in Tokens, m \in SecondLines }

Offsets == { 0, 100, 10500, 0 - 100, 0 - 5000 }

ReplaceMaps ==
    { << <<(<<"a">>), <<"a","b">>>> >>,
      << <<(<<"a">>), <<"b">>>>, <<(<<"b">>), <<"a">>>> >>,
      << <<(<<"a","b">>), <<"x">>>>, <<(<<"c">>), <<>>>> >>,
      << <<(<<"4","7","0","0">>), <<"4","6","0","0">>>> >>,
      << <<(<<>>), <<"z">>>> >> }

RuleSets ==
    { [replace |-> <<>>, port_offset |-> o] : o \in Offsets }
    \cup { [replace |-> m, port_offset |-> 100] : m \in ReplaceMaps }

NoRules == [replace |-> <<>>, port_offset |-> 0]

InitRW ==
    /\ rwOrig \in Files
    /\ rwRules \in RuleSets
    /\ rwFile = rwOrig
    /\ rwFirst = <<>>
    /\ rwCount = 0
    /\ fs = <<>>
    /\ clock = 0
    /\ servers = <<>>
    /\ pc = "idle"
    /\ idx = 0
    /\ new_version = <<>>
    /\ env_rules = NoRules
    /\ status = <<>>
    /\ outcome = "none"
    /\ runs = 0
    /\ fs0 = <<>>
    /\ created = {}
    /\ run_input = <<>>

\* modify_ports_and_paths(file_path, env_rules) on the file
ApplyModify ==
    /\ rwCount < 2
    /\ rwFile' = modify_ports_and_paths(rwFile, rwRules)
    /\ rwFirst' = IF rwCount = 0 THEN rwFile' ELSE rwFirst
    /\ rwCount' = rwCount + 1
    /\ UNCHANGED <<rwOrig, rwRules>>
    /\ UNCHANGED fsVars

NextRW == ApplyModify

----------------------------------------------------------------------------
(* The filesystem and the configuration the orchestrator works on. *)

MaxServers == 2
MaxRuns == 2

Uppers == <<"A", "B", "C", "I", "N">>
Lowers == <<"a", "b", "c", "i", "n">>

\* str.upper() and str.lower(), character by character
UpperChar(c) == IF \E k \in 1..5 : Lowers[k] = c
                THEN Uppers[CHOOSE k \in 1..5 : Lowers[k] = c] ELSE c
LowerChar(c) == IF \E k \in 1..5 : Uppers[k] = c
                THEN Lowers[CHOOSE k \in 1..5 : Uppers[k] = c] ELSE c
upper(s) == [k \in 1..Len(s) |-> UpperChar(s[k])]
lower(s) == [k \in 1..Len(s) |-> LowerChar(s[k])]

\* str.strip()
RECURSIVE strip(_)
strip(s) ==
    IF s = <<>> THEN s
    ELSE IF s[1] = " " THEN strip(Tail(s))
    ELSE IF s[Len(s)] = " " THEN strip(SubSeq(s, 1, Len(s) - 1))
    ELSE s

endswith(s, suffix) == HasAt(s, suffix, Len(s) - Len(suffix) + 1)

\* the file name os.walk yields for a path relative to the version folder
RECURSIVE basename(_)
basename(rel) ==
    IF \E k \in 1..Len(rel) : rel[k] = "/"
    THEN basename(SubSeq(rel, (CHOOSE k \in 1..Len(rel) : rel[k] = "/") + 1, Len(rel)))
    ELSE rel

\* A buggy variant: every file of the tree is rewritten.
IsIniNameAny(rel) == TRUE

\* file.lower().endswith(".ini")
IsIniName(rel) == endswith(lower(basename(rel)), <<".", "i", "n", "i">>)

S1 == <<"s", "1">>
S2 == <<"s", "2">>
Gone == <<"s", "9">>
V1 == <<"v", "1">>
V2 == <<"v", "2">>
V3 == <<"v", "3">>

AIni == <<"a", ".", "i", "n", "i">>
BIni == <<"d", "/", "B", ".", "I", "N", "I">>
RTxt == <<"r", ".", "t", "x", "t">>

IniText == << <<"t", "s", "t", "=", "4", "5", "0", "0">> >>
TxtText == << <<"4", "5", "0", "0">> >>

Dir(ctime, files) == [kind |-> "dir", ctime |-> ctime, files |-> files]
PlainFile(ctime) == [kind |-> "file", ctime |-> ctime, files |-> <<>>]

FilesOne == (AIni :> IniText) @@ (RTxt :> TxtText)
FilesTwo == (BIni :> IniText)

\* what a server root may hold when the tool is first run
Layouts ==
    { <<>>,
      (V1 :> Dir(1, FilesOne)),
      (V1 :> Dir(1, FilesOne)) @@ (V2 :> PlainFile(2)),
      (V1 :> Dir(3, FilesOne)) @@ (V2 :> Dir(2, FilesTwo)),
      (V1 :> Dir(2, FilesOne)) @@ (V2 :> Dir(2, FilesTwo)) }


LayoutsS2 == { (V1 :> Dir(1, FilesTwo)) }

Server(name, path) == [name |-> name, path |-> path]

ServerEntries == { Server(p, p) : p \in {S1, S2, Gone} }

RECURSIVE ServerLists(_)
ServerLists(n) ==
    IF n = 0 THEN { <<>> }
    ELSE LET shorter == ServerLists(n - 1)
         IN  shorter \cup { Append(l, e) : l \in shorter, e \in ServerEntries }

\* environment.json
env_rules_data ==
    (<<"A">> :> [replace |-> <<>>, port_offset |-> 100])
    @@ (<<"B">> :> [replace |-> << <<(<<"t", "s", "t">>), <<"p", "r", "d">>>> >>,
                    port_offset |-> 1000])

\* which of servers.json and environment.json a run finds
ConfigurationsOnDisk == { <<TRUE, TRUE>>, <<FALSE, TRUE>>, <<TRUE, FALSE>> }

VersionInputs == { V2, <<" ">> \o V3 }
EnvironmentInputs == { <<"a">>, <<"B", " ">>, <<"c">> }

Pending == [i \in 1..Len(servers) |-> "pending"]

Init ==
    /\ fs \in { (S1 :> a) @@ (S2 :> b) : a \in Layouts, b \in LayoutsS2 }
    /\ clock = 3
    /\ servers \in ServerLists(MaxServers)
    /\ pc = "idle"
    /\ idx = 0
    /\ new_version = <<>>
    /\ env_rules = NoRules
    /\ status = Pending
    /\ outcome = "none"
    /\ runs = 0
    /\ fs0 = fs
    /\ created = {}
    /\ run_input = [version |-> <<>>, environment |-> <<>>,
                    servers_file |-> TRUE, rules_file |-> TRUE]
    /\ rwOrig = <<>>
    /\ rwRules = NoRules
    /\ rwFile = <<>>
    /\ rwFirst = <<>>
    /\ rwCount = 0

----------------------------------------------------------------------------
(* The functions of config_tool.py. *)

\* A buggy variant: the file is not checked to exist.
load_json_unchecked(present, data) == [raised |-> FALSE, value |-> data]

\* load_json: raises FileNotFoundError when the file is absent
load_json(present, data) == [raised |-> ~present, value |-> data]

\* the entries of a directory; none for a path that does not exist
Entries(path) == IF path \in DOMAIN fs THEN fs[path] ELSE <<>>

\* A buggy variant: the path is taken to exist.
path_exists_always(path) == TRUE

\* os.path.exists(server_path)
path_exists(path) == path \in DOMAIN fs

\* A buggy variant: only a directory of that name counts.
version_exists_dir(server_path, version) ==
    /\ version \in DOMAIN Entries(server_path)
    /\ Entries(server_path)[version].kind = "dir"

\* version_exists: os.path.exists(os.path.join(server_path, version)); joining
\* an empty version names the server path itself
version_exists(server_path, version) ==
    \/ version = <<>> /\ path_exists(server_path)
    \/ version \in DOMAIN Entries(server_path)

SubDirs(server_path) ==
    { d \in DOMAIN Entries(server_path) : Entries(server_path)[d].kind = "dir" }

\* A buggy variant: the oldest folder is taken.
get_oldest_version_path(server_path) ==
    { d \in SubDirs(server_path) :
        \A e \in SubDirs(server_path) :
            Entries(server_path)[e].ctime >= Entries(server_path)[d].ctime }

\* get_latest_version_path: the subdirectories max(subdirs, key=os.path.getctime)
\* can return (the first of the greatest in listing order, which is arbitrary);
\* none when there is no subdirectory and FileNotFoundError is raised
get_latest_version_path(server_path) ==
    { d \in SubDirs(server_path) :
        \A e \in SubDirs(server_path) :
            Entries(server_path)[e].ctime <= Entries(server_path)[d].ctime }

\* copy_version_folder: the parent directory once shutil.copytree has made
\* new_version in it, a directory created now that holds the given files
copy_version_folder(parent, version, now, files) ==
    (version :> Dir(now, files)) @@ parent

\* the trees shutil.copytree can leave when it fails: none, or some of the files
PartialCopies(files) ==
    { [made |-> FALSE, files |-> <<>>] }
    \cup { [made |-> TRUE, files |-> [n \in keep |-> files[n]]] :
             keep \in (SUBSET DOMAIN files) \ {DOMAIN files} }

\* update_environment_files: every .ini file of the tree rewritten
update_environment_files(files, rules) ==
    [n \in DOMAIN files |->
        IF IsIniName(n) THEN modify_ports_and_paths(files[n], rules) ELSE files[n]]

\* the trees update_environment_files can leave when modify_ports_and_paths
\* fails on one file: files visited before it rewritten, the failing file as it
\* was (read error) or holding the first lines written (write error)
PartialRewrites(files, rules) ==
    LET inis == { n \in DOMAIN files : IsIniName(n) }
        Left(bad) ==
            { files[bad] }
            \cup { SubSeq(modify_ports_and_paths(files[bad], rules), 1, k) :
                      k \in 0..(Len(files[bad]) - 1) }
    IN  { [n \in DOMAIN files |->
              IF n \in t[2] THEN modify_ports_and_paths(files[n], rules)
              ELSE IF n = t[1] THEN t[3]
              ELSE files[n]] :
          t \in { u \in inis \X (SUBSET inis) \X UNION { Left(b) : b \in inis } :
                    u[1] \notin u[2] /\ u[3] \in Left(u[1]) } }

Report(i, what) == status' = [status EXCEPT ![i] = what]

Return == pc' = "loop" /\ idx' = idx + 1 /\ outcome' = outcome

\* an exception leaves process_server and, uncaught in main, ends the run
Raise == pc' = "done" /\ idx' = idx /\ outcome' = "exception"

\* main up to the loop: the prompts, load_json twice, the environment check
MainStart(version_in, environment_in, servers_file, rules_file) ==
    /\ pc \in {"idle", "done"}
    /\ runs < MaxRuns
    /\ runs' = runs + 1
    /\ run_input' = [version |-> version_in, environment |-> environment_in,
                     servers_file |-> servers_file, rules_file |-> rules_file]
    /\ fs0' = fs
    /\ created' = {}
    /\ status' = Pending
    /\ new_version' = strip(version_in)
    /\ idx' = 1
    /\ LET environment == upper(strip(environment_in))
           loaded_servers == load_json(servers_file, servers)
           loaded_rules == load_json(rules_file, env_rules_data)
       IN  IF loaded_servers.raised \/ loaded_rules.raised
           THEN pc' = "done" /\ outcome' = "missing_file" /\ env_rules' = NoRules
           ELSE IF environment \notin DOMAIN loaded_rules.value
           THEN pc' = "done" /\ outcome' = "invalid_environment" /\ env_rules' = NoRules
           ELSE /\ pc' = "loop"
                /\ outcome' = "running"
                /\ env_rules' = loaded_rules.value[environment]
    /\ UNCHANGED <<fs, clock, servers>>
    /\ UNCHANGED rwVars

\* one turn of the loop of main: process_server(srv, new_version, env_rules)
process_server ==
    /\ pc = "loop"
    /\ idx <= Len(servers)
    /\ LET server_path == servers[idx].path
       IN  IF ~path_exists(server_path)
           THEN Report(idx, "path_not_found") /\ Return
                /\ UNCHANGED <<fs, clock, created>>
           ELSE IF version_exists(server_path, new_version)
           THEN Report(idx, "skipped") /\ Return
                /\ UNCHANGED <<fs, clock, created>>
           ELSE IF get_latest_version_path(server_path) = {}
           THEN Report(idx, "exception") /\ Raise
                /\ UNCHANGED <<fs, clock, created>>
           ELSE \E latest \in get_latest_version_path(server_path) :
                LET source == Entries(server_path)[latest].files
                    Made(files) ==
                        /\ fs' = [fs EXCEPT ![server_path] =
                                    copy_version_folder(@, new_version, clock + 1, files)]
                        /\ clock' = clock + 1
                        /\ created' = created \cup {<<server_path, new_version, latest>>}
                IN  \/ \E c \in PartialCopies(source) :
                          /\ Report(idx, "exception") /\ Raise
                          /\ IF c.made THEN Made(c.files)
                             ELSE UNCHANGED <<fs, clock, created>>
                    \/ \E files \in PartialRewrites(source, env_rules) :
                          Report(idx, "exception") /\ Raise /\ Made(files)
                    \/ /\ Report(idx, "updated") /\ Return
                       /\ Made(update_environment_files(source, env_rules))
    /\ UNCHANGED <<servers, new_version, env_rules, runs, fs0, run_input>>
    /\ UNCHANGED rwVars

\* main after the loop: "All servers processed successfully."
MainFinish ==
    /\ pc = "loop"
    /\ idx > Len(servers)
    /\ pc' = "done"
    /\ outcome' = "completed"
    /\ UNCHANGED <<fs, clock, servers, idx, new_version, env_rules, status, runs,
                   fs0, created, run_input>>
    /\ UNCHANGED rwVars

\* a run of main is started with whatever the operator types and finds on disk
main ==
    \E v \in VersionInputs, e \in EnvironmentInputs, present \in ConfigurationsOnDisk :
        MainStart(v, e, present[1], present[2])

Next == main \/ process_server \/ MainFinish

Spec == Init /\ [][Next]_vars

----------------------------------------------------------------------------
(* What the claims about the orchestrator speak of. *)

\* the server the loop of main is about to process
AtServer == pc = "loop" /\ idx <= Len(servers)

RootOf(i) == servers[i].path

\* C1: if processing server i fails with an exception, main still calls
\* process_server for every server after i in the list.
C1_FaultIsolation ==
    pc = "done" =>
        \A i \in 1..Len(servers) : \A j \in 1..Len(servers) :
            status[i] = "exception" /\ j > i => status[j] # "pending"

\* the run was given no servers file, no rules file, or a label that, upper-cased,
\* is no key of the rules mapping
BadConfiguration ==
    /\ runs >= 1
    /\ \/ ~run_input.servers_file
       \/ ~run_input.rules_file
       \/ upper(strip(run_input.environment)) \notin DOMAIN env_rules_data

\* C2: with a configuration file missing or a label that is no key of the rules,
\* main ends without calling process_server: nothing is reported for any server,
\* no directory is created and the filesystem is as the run found it.
C2_FailFast ==
    BadConfiguration =>
        /\ pc = "done"
        /\ status = Pending
        /\ created = {}
        /\ fs = fs0

\* a run refused for its label although a server of the list was ready to be cloned
C2_Witness ==
    /\ BadConfiguration
    /\ run_input.servers_file /\ run_input.rules_file
    /\ pc = "done"
    /\ \E i \in 1..Len(servers) :
          /\ RootOf(i) \in DOMAIN fs
          /\ strip(run_input.version) # <<>>
          /\ strip(run_input.version) \notin DOMAIN fs[RootOf(i)]
          /\ \E d \in DOMAIN fs[RootOf(i)] : fs[RootOf(i)][d].kind = "dir"

\* C3: a server whose root already holds an entry named new_version is reported
\* as skipped, nothing is copied or modified, and main goes on to the next server.
C3_SkipExisting ==
    [][ ( /\ AtServer
          /\ RootOf(idx) \in DOMAIN fs
          /\ new_version \in DOMAIN fs[RootOf(idx)] )
        => /\ fs' = fs
           /\ created' = created
           /\ status' = [status EXCEPT ![idx] = "skipped"]
           /\ pc' = "loop"
           /\ idx' = idx + 1 ]_vars

\* a server skipped for a plain file named like the version, and the server
\* after it processed
C3_Witness ==
    \E i \in 1..Len(servers) :
        /\ status[i] = "skipped"
        /\ new_version \in DOMAIN fs0[RootOf(i)]
        /\ fs0[RootOf(i)][new_version].kind = "file"
        /\ i < Len(servers)
        /\ status[i + 1] # "pending"

\* C4: a server whose root path does not exist is reported, nothing is resolved,
\* cloned or rewritten, and main goes on to the next server of the list.
C4_MissingPathSkipped ==
    [][ (AtServer /\ RootOf(idx) \notin DOMAIN fs)
        => /\ fs' = fs
           /\ created' = created
           /\ status' = [status EXCEPT ![idx] = "path_not_found"]
           /\ pc' = "loop"
           /\ idx' = idx + 1 ]_vars

\* a server with a missing path reported, and the server after it updated
C4_Witness ==
    \E i \in 1..Len(servers) :
        /\ status[i] = "path_not_found"
        /\ i < Len(servers)
        /\ status[i + 1] = "updated"

\* C8: a successful process_server for a root with a subdirectory and no entry
\* named new_version creates root/new_version with the file set (relative paths)
\* of a subdirectory of the greatest creation timestamp.
C8_CloneComplete ==
    [][ ( /\ AtServer
          /\ RootOf(idx) \in DOMAIN fs
          /\ new_version \notin DOMAIN fs[RootOf(idx)]
          /\ status'[idx] = "updated" )
        => \E src \in DOMAIN fs[RootOf(idx)] :
              /\ fs[RootOf(idx)][src].kind = "dir"
              /\ \A d \in DOMAIN fs[RootOf(idx)] :
                    fs[RootOf(idx)][d].kind = "dir"
                        => fs[RootOf(idx)][d].ctime <= fs[RootOf(idx)][src].ctime
              /\ new_version \in DOMAIN fs'[RootOf(idx)]
              /\ fs'[RootOf(idx)][new_version].kind = "dir"
              /\ DOMAIN fs'[RootOf(idx)][new_version].files
                    = DOMAIN fs[RootOf(idx)][src].files ]_vars

\* a server updated whose root held two version folders with different file
\* sets, the latest of them not the last by name
C8_Witness ==
    \E i \in 1..Len(servers) : \E c \in created :
        /\ status[i] = "updated"
        /\ c[1] = RootOf(i)
        /\ c[3] = V1
        /\ V2 \in DOMAIN fs0[c[1]]
        /\ fs0[c[1]][V2].kind = "dir"
        /\ fs0[c[1]][V2].ctime < fs0[c[1]][V1].ctime
        /\ DOMAIN fs[c[1]][c[2]].files = DOMAIN fs0[c[1]][V1].files

\* the name ends in .ini, whatever the case of its letters
EndsInIni(n) ==
    /\ Len(n) >= 4
    /\ n[Len(n) - 3] = "."
    /\ n[Len(n) - 2] \in {"i", "I"}
    /\ n[Len(n) - 1] \in {"n", "N"}
    /\ n[Len(n)] \in {"i", "I"}

\* C10: in every run, whatever was in a server root before the run is unchanged
\* after it, and in a directory the run created only files whose name ends in
\* .ini (in any case) differ from the file they were copied from.
C10_ExistingVersionsKept ==
    /\ \A root \in DOMAIN fs0 : \A name \in DOMAIN fs0[root] :
          /\ name \in DOMAIN fs[root]
          /\ fs[root][name] = fs0[root][name]
    /\ \A c \in created : \A n \in DOMAIN fs[c[1]][c[2]].files :
          ~EndsInIni(n) => fs[c[1]][c[2]].files[n] = fs0[c[1]][c[3]].files[n]

\* a second run cloned the folder the first run made: its .ini file was
\* rewritten again, its other file was not
C10_Witness ==
    /\ runs = 2
    /\ \E c \in created : \E n \in DOMAIN fs[c[1]][c[2]].files :
          \E m \in DOMAIN fs[c[1]][c[2]].files :
              /\ c[3] = V2
              /\ fs0[c[1]][V2].ctime > 3
              /\ EndsInIni(n)
              /\ fs[c[1]][c[2]].files[n] # fs0[c[1]][c[3]].files[n]
              /\ ~EndsInIni(m)

----------------------------------------------------------------------------
(* Provenance of the characters of a rewritten line: for every character   *)
(* the step that wrote it (t: 0 for text of the line as read, i for the    *)
(* value of the i-th replacement, Len(replace) + 1 for the port step) and  *)
(* the step that removed text right before it (b, 0 if none).  The marks   *)
(* follow the very matches str_replace rewrites.                           *)

Mark(t, b) == [t |-> t, b |-> b]

MarkFirst(marks, j) ==
    IF j = 0 \/ marks = <<>> THEN marks
    ELSE [marks EXCEPT ![1] = Mark(marks[1].t, j)]

RECURSIVE MarkRebuild(_, _, _, _, _, _, _)
MarkRebuild(marks, starts, n, m, j, pos, k) ==
    IF k > Len(starts) THEN SubSeq(marks, pos, Len(marks))
    ELSE SubSeq(marks, pos, starts[k] - 1)
         \o [x \in 1..m |-> Mark(j, 0)]
         \o MarkFirst(MarkRebuild(marks, starts, n, m, j, starts[k] + n, k + 1),
                      IF m = 0 /\ n > 0 THEN j ELSE 0)

\* the marks of line.replace(old, new) done as step j
MarkReplace(marks, s, old, new, j) ==
    MarkRebuild(marks, MatchStarts(s, old), Len(old), Len(new), j, 1, 1)

RECURSIVE MarkReplaceStep(_, _, _, _)
MarkReplaceStep(line, marks, replace, k) ==
    IF k > Len(replace) THEN [line |-> line, marks |-> marks]
    ELSE MarkReplaceStep(str_replace(line, replace[k][1], replace[k][2]),
                         MarkReplace(marks, line, replace[k][1], replace[k][2], k),
                         replace, k + 1)

RECURSIVE MarkPortLoop(_, _, _, _, _, _)
MarkPortLoop(line, marks, ports, port_offset, j, k) ==
    IF k > Len(ports) THEN [line |-> line, marks |-> marks]
    ELSE LET port_int == int(ports[k])
             new == str(port_int + port_offset)
         IN  IF InPortRange(port_int)
             THEN MarkPortLoop(str_replace(line, ports[k], new),
                               MarkReplace(marks, line, ports[k], new, j),
                               ports, port_offset, j, k + 1)
             ELSE MarkPortLoop(line, marks, ports, port_offset, j, k + 1)

MarkedRewrite(line, rules) ==
    LET mid == MarkReplaceStep(line, [x \in 1..Len(line) |-> Mark(0, 0)],
                               rules.replace, 1)
    IN  MarkPortLoop(mid.line, mid.marks, findall(mid.line), rules.port_offset,
                     Len(rules.replace) + 1, 1)

SpecRW == InitRW /\ [][NextRW]_vars

----------------------------------------------------------------------------
(* What the claims about the rewriter speak of. *)

\* the maximal stretch of digits, or of other characters, that starts at p
RECURSIVE StretchEnd(_, _)
StretchEnd(s, p) ==
    IF p < Len(s) /\ IsDigit(s[p + 1]) = IsDigit(s[p]) THEN StretchEnd(s, p + 1) ELSE p

\* s cut into its maximal digit runs and the text between them: <<start, end>>
RECURSIVE Chunks(_, _)
Chunks(s, p) ==
    IF p > Len(s) THEN <<>>
    ELSE LET e == StretchEnd(s, p) IN <<(<<p, e>>)>> \o Chunks(s, e + 1)

ChunkText(s, c) == SubSeq(s, c[1], c[2])

\* a numeral in the port window, as the specification states the window
InWindow(n) == 4000 <= n /\ n <= 6000

\* a maximal run of 4-5 digits whose value is in [4000, 6000]
IsPortRun(s, c) ==
    /\ IsDigit(s[c[1]])
    /\ c[2] - c[1] + 1 \in {4, 5}
    /\ InWindow(int(ChunkText(s, c)))

HasPortRun(s) == LET cs == Chunks(s, 1) IN \E k \in 1..Len(cs) : IsPortRun(s, cs[k])

IsSubstr(a, b) == \E p \in 1..(Len(b) - Len(a) + 1) : HasAt(b, a, p)

\* the line the port step scans: the line as read, string-substituted
Mid(k) == ReplaceStep(rwOrig[k], rwRules.replace, 1)

\* out reads, from pos on: the chunks i.. of s, each port run as its value plus
\* off, the text between digit runs unchanged, every other digit run as anything
RECURSIVE ReadsShifted(_, _, _, _, _, _)
ReadsShifted(s, cs, i, out, pos, off) ==
    IF i > Len(cs) THEN pos = Len(out) + 1
    ELSE IF IsPortRun(s, cs[i])
         THEN LET v == str(int(ChunkText(s, cs[i])) + off)
              IN  HasAt(out, v, pos) /\ ReadsShifted(s, cs, i + 1, out, pos + Len(v), off)
    ELSE IF IsDigit(s[cs[i][1]])
         THEN \E n \in 0..(Len(out) - pos + 1) :
                  ReadsShifted(s, cs, i + 1, out, pos + n, off)
    ELSE HasAt(out, ChunkText(s, cs[i]), pos)
         /\ ReadsShifted(s, cs, i + 1, out, pos + cs[i][2] - cs[i][1] + 1, off)

\* out reads, from pos on: the chunks i.. of s, each port run as anything and
\* everything else unchanged
RECURSIVE OnlyPortRunsChanged(_, _, _, _, _)
OnlyPortRunsChanged(s, cs, i, out, pos) ==
    IF i > Len(cs) THEN pos = Len(out) + 1
    ELSE IF IsPortRun(s, cs[i])
         THEN \E n \in 0..(Len(out) - pos + 1) :
                  OnlyPortRunsChanged(s, cs, i + 1, out, pos + n)
    ELSE HasAt(out, ChunkText(s, cs[i]), pos)
         /\ OnlyPortRunsChanged(s, cs, i + 1, out, pos + cs[i][2] - cs[i][1] + 1)

\* the numerals of a line in the window, by their index among the numerals
WindowNumerals(s) ==
    LET found == findall(s) IN { j \in 1..Len(found) : InWindow(int(found[j])) }

\* no computed new value equals another numeral of the line
NoNewValueEqualsNumeral(s, off) ==
    LET found == findall(s)
    IN  \A j \in WindowNumerals(s) : \A k \in 1..Len(found) :
            k # j => str(int(found[j]) + off) # found[k]

\* no in-range numeral is a substring of another numeral of the line
NoNumeralInsideNumeral(s) ==
    LET found == findall(s)
    IN  \A j \in WindowNumerals(s) : \A k \in 1..Len(found) :
            k # j => ~IsSubstr(found[j], found[k])

\* no in-range numeral is a substring of the new value computed for another one
NoNumeralInsideNewValue(s, off) ==
    LET found == findall(s)
        window == WindowNumerals(s)
    IN  \A j \in window : \A k \in window :
            k # j => ~IsSubstr(found[j], str(int(found[k]) + off))

C5Case(k) ==
    LET mid == Mid(k)
    IN  /\ HasPortRun(mid)
        /\ NoNewValueEqualsNumeral(mid, rwRules.port_offset)
        /\ NoNumeralInsideNumeral(mid)

C5Reads(k) ==
    LET mid == Mid(k)
    IN  ReadsShifted(mid, Chunks(mid, 1), 1, rwFirst[k], 1, rwRules.port_offset)

PortDigitsOnlyInPortRuns(s) ==
    LET found == findall(s)
        cs == Chunks(s, 1)
    IN  \A j \in WindowNumerals(s) : \A p \in 1..Len(s) :
            HasAt(s, found[j], p) =>
                \E i \in 1..Len(cs) :
                    cs[i][1] <= p /\ p <= cs[i][2] /\ IsPortRun(s, cs[i])

C9Frame(k) ==
    LET mid == Mid(k) IN OnlyPortRunsChanged(mid, Chunks(mid, 1), 1, rwFirst[k], 1)

\* C9 as stated: in every line the port step changes only characters of maximal
\* runs of 4-5 digits whose value is in [4000, 6000]; every other digit run and
\* all other text read the same after the step.
C9_AsStated ==
    rwCount >= 1 => \A k \in 1..Len(rwOrig) : C9Frame(k)

\* C9 amended: that holds for the lines in which the digits of every numeral the
\* scan finds in [4000, 6000] occur only inside maximal runs of 4-5 digits whose
\* value is in [4000, 6000].
C9_OnlyPortRunsTouched ==
    rwCount >= 1 =>
        \A k \in 1..Len(rwOrig) : PortDigitsOnlyInPortRuns(Mid(k)) => C9Frame(k)

\* a line with a port and another digit run: the port changed, the rest did not
C9_Witness ==
    /\ rwCount = 1
    /\ \E k \in 1..Len(rwOrig) :
        /\ PortDigitsOnlyInPortRuns(Mid(k))
        /\ HasPortRun(Mid(k))
        /\ \E i \in 1..Len(Chunks(Mid(k), 1)) :
              /\ IsDigit(Mid(k)[Chunks(Mid(k), 1)[i][1]])
              /\ ~IsPortRun(Mid(k), Chunks(Mid(k), 1)[i])
        /\ rwFirst[k] # Mid(k)

\* some port value written by the first application is still in [4000, 6000]
RewrittenPortInWindow ==
    \E k \in 1..Len(rwOrig) : \E j \in WindowNumerals(Mid(k)) :
        InWindow(int(findall(Mid(k))[j]) + rwRules.port_offset)

\* C7 as stated: if a port value rewritten by the first application is still in
\* [4000, 6000], the second application yields different content.
C7_AsStated ==
    rwCount = 2 /\ RewrittenPortInWindow => rwFile # rwFirst

\* C7 amended: the same when moreover port_offset is not zero, the replacements
\* leave the once-rewritten file unchanged, and the once-rewritten file holds a
\* maximal run of 4-5 digits with a value in [4000, 6000].
C7_NotIdempotent ==
    ( /\ rwCount = 2
      /\ RewrittenPortInWindow
      /\ rwRules.port_offset # 0
      /\ \A k \in 1..Len(rwFirst) :
            ReplaceStep(rwFirst[k], rwRules.replace, 1) = rwFirst[k]
      /\ \E k \in 1..Len(rwFirst) : HasPortRun(rwFirst[k]) )
    => rwFile # rwFirst

\* a file rewritten twice whose ports moved both times
C7_Witness ==
    /\ rwCount = 2
    /\ RewrittenPortInWindow
    /\ rwRules.port_offset # 0
    /\ \A k \in 1..Len(rwFirst) :
          ReplaceStep(rwFirst[k], rwRules.replace, 1) = rwFirst[k]
    /\ \E k \in 1..Len(rwFirst) : HasPortRun(rwFirst[k])
    /\ rwFirst # rwOrig
    /\ rwFile # rwFirst

Marked(k) == MarkedRewrite(rwOrig[k], rwRules)

\* the occurrence of key i at p of a line with these marks holds text written,
\* or spans a place where text was removed, by a step among steps
WrittenBy(marks, i, p, steps) ==
    \E q \in p..(p + Len(rwRules.replace[i][1]) - 1) :
        \/ marks[q].t \in steps
        \/ q > p /\ marks[q].b \in steps

KeyOccurrences(k, i) ==
    { p \in 1..Len(rwFirst[k]) : HasAt(rwFirst[k], rwRules.replace[i][1], p) }

NonEmptyKeys == { i \in 1..Len(rwRules.replace) : rwRules.replace[i][1] # <<>> }

\* C6 as stated: after the rewrite a file holds no occurrence of a key of the
\* replace mapping, except occurrences reintroduced by the value of a
\* replacement applied later in the mapping's order.
C6_AsStated ==
    rwCount >= 1 =>
        \A k \in 1..Len(rwOrig) :
            LET marks == Marked(k).marks
            IN  \A i \in NonEmptyKeys : \A p \in KeyOccurrences(k, i) :
                    WrittenBy(marks, i, p, (i + 1)..Len(rwRules.replace))

\* C6 amended: after the rewrite every occurrence of a non-empty key holds text
\* written, or spans a place where text was removed, by the key's own
\* replacement, a later replacement or the port step.
C6_KeysEliminated ==
    rwCount >= 1 =>
        \A k \in 1..Len(rwOrig) :
            LET marked == Marked(k)
            IN  /\ marked.line = rwFirst[k]
                /\ Len(marked.marks) = Len(rwFirst[k])
                /\ \A i \in NonEmptyKeys : \A p \in KeyOccurrences(k, i) :
                      WrittenBy(marked.marks, i, p, i..(Len(rwRules.replace) + 1))

\* a key that occurred more than once in a line as read and is gone after the rewrite
C6_Witness ==
    /\ rwCount = 1
    /\ \E k \in 1..Len(rwOrig) : \E i \in NonEmptyKeys :
        /\ Len(MatchStartsFrom(rwOrig[k], rwRules.replace[i][1], 1)) >= 2
        /\ KeyOccurrences(k, i) = {}

====
